---- MODULE Spec2Model ----
(***************************************************************************)
(* imagehub: folders and images with slug allocation, metadata extraction  *)
(* on save and a denormalised per-folder image count.                      *)
(*                                                                         *)
(* Text values (names, slugs, file names, identifiers) are sequences of    *)
(* one-character strings, so that slugify, splitext, basename, isdigit and *)
(* int() are computed character by character.                              *)
(***************************************************************************)
EXTENDS Integers, Sequences, FiniteSets, TLC

VARIABLES
    folders,        \* the Folder table: a set of rows [id, name, slug, image_count]
    images,         \* the Image table: a set of rows
    nextFolderId,   \* the Folder table's autoincrement key
    nextImageId,    \* the Image table's autoincrement key
    last,           \* the outcome of the last completed operation (return / exception)
    req             \* the in-flight creation requests of the interleaved specification

vars == <<folders, images, nextFolderId, nextImageId, last, req>>

(***************************************************************************)
(* Bounds                                                                  *)
(***************************************************************************)
MaxFolders == 3     \* folders ever created, in the specification of the folder operations
MaxAlbums == 2      \* folders ever created, in the specifications with images
MaxImages == 2      \* images ever created

None == 0           \* Python's None for a primary key / folder_id (keys start at 1)

(***************************************************************************)
(* Characters and strings                                                  *)
(***************************************************************************)
DigitChars == <<"0", "1", "2", "3", "4", "5", "6", "7", "8", "9">>

IsDigitChar(c) == \E d \in 1..10 : DigitChars[d] = c

DigitValue(c) == (CHOOSE d \in 1..10 : DigitChars[d] = c) - 1

\* str(n) for n >= 0
RECURSIVE IntToStr(_)
IntToStr(n) ==
    IF n < 10 THEN <<DigitChars[n + 1]>>
    ELSE IntToStr(n \div 10) \o <<DigitChars[(n % 10) + 1]>>

\* int(s) for a string of digits
RECURSIVE ParseInt(_)
ParseInt(s) ==
    IF Len(s) = 0 THEN 0
    ELSE 10 * ParseInt(SubSeq(s, 1, Len(s) - 1)) + DigitValue(s[Len(s)])

\* str.isdigit(): non-empty and every character a digit
IsDigit(s) == Len(s) > 0 /\ \A k \in 1..Len(s) : IsDigitChar(s[k])

LowerChar(c) ==
    CASE c = "A" -> "a"
      [] c = "B" -> "b"
      [] c = "T" -> "t"
      [] OTHER -> c

\* \w, over the lowercase letters the model's names and file names use
IsWordChar(c) ==
    c \in {"a", "b", "e", "f", "g", "i", "j", "n", "p", "t", "x", "_"} \/ IsDigitChar(c)

IsSpaceChar(c) == c = " "

RECURSIVE MapLower(_)
MapLower(s) ==
    IF Len(s) = 0 THEN <<>> ELSE <<LowerChar(Head(s))>> \o MapLower(Tail(s))

\* re.sub(r"[^\w\s-]", "", value)
RECURSIVE KeepWordSpaceHyphen(_)
KeepWordSpaceHyphen(s) ==
    IF Len(s) = 0 THEN <<>>
    ELSE IF IsWordChar(Head(s)) \/ IsSpaceChar(Head(s)) \/ Head(s) = "-"
         THEN <<Head(s)>> \o KeepWordSpaceHyphen(Tail(s))
         ELSE KeepWordSpaceHyphen(Tail(s))

IsSep(c) == IsSpaceChar(c) \/ c = "-"

\* re.sub(r"[-\s]+", "-", value)
RECURSIVE CollapseSeparators(_)
CollapseSeparators(s) ==
    IF Len(s) = 0 THEN <<>>
    ELSE IF IsSep(Head(s))
         THEN IF Len(s) > 1 /\ IsSep(s[2])
              THEN CollapseSeparators(Tail(s))
              ELSE <<"-">> \o CollapseSeparators(Tail(s))
         ELSE <<Head(s)>> \o CollapseSeparators(Tail(s))

\* str.strip("-_")
RECURSIVE StripLeft(_)
StripLeft(s) ==
    IF Len(s) > 0 /\ Head(s) \in {"-", "_"} THEN StripLeft(Tail(s)) ELSE s

RECURSIVE StripRight(_)
StripRight(s) ==
    IF Len(s) > 0 /\ s[Len(s)] \in {"-", "_"}
    THEN StripRight(SubSeq(s, 1, Len(s) - 1)) ELSE s

\* django.utils.text.slugify on ASCII input
slugify(value) ==
    StripRight(StripLeft(CollapseSeparators(KeepWordSpaceHyphen(MapLower(value)))))

(***************************************************************************)
(* generate_unique_slug                                                    *)
(***************************************************************************)
\* a variant that leaves the folder out of the filter
SlugExistsAnywhere(rows, slug, folder_id) == \E r \in rows : r.slug = slug

\* model_class.objects.filter(**filter_kwargs).exists()
SlugExists(rows, slug, folder_id) ==
    \E r \in rows : r.slug = slug /\ (folder_id # None => r.folder = folder_id)

RECURSIVE SlugLoop(_, _, _, _, _)
SlugLoop(rows, orig, slug, count, folder_id) ==
    IF SlugExists(rows, slug, folder_id)
    THEN SlugLoop(rows, orig, orig \o <<"-">> \o IntToStr(count), count + 1, folder_id)
    ELSE slug

\* a variant whose first suffix is 2
generate_unique_slug_from_two(rows, name, folder_id) ==
    SlugLoop(rows, slugify(name), slugify(name), 2, folder_id)

generate_unique_slug(rows, name, folder_id) ==
    SlugLoop(rows, slugify(name), slugify(name), 1, folder_id)

(***************************************************************************)
(* File names and uploaded content                                         *)
(***************************************************************************)
\* str.rfind(c) + 1: the position of the last c in s, 0 when there is none
LastIndexOf(s, c) ==
    IF \E k \in 1..Len(s) : s[k] = c
    THEN CHOOSE k \in 1..Len(s) : s[k] = c /\ \A j \in (k + 1)..Len(s) : s[j] # c
    ELSE 0

\* os.path.basename
basename(p) == SubSeq(p, LastIndexOf(p, "/") + 1, Len(p))

\* the position of the dot at which os.path.splitext splits p, 0 when it does not split
SplitPoint(p) ==
    LET sep == LastIndexOf(p, "/")
        dot == LastIndexOf(p, ".")
    IN IF dot > sep /\ \E k \in (sep + 1)..(dot - 1) : p[k] # "." THEN dot ELSE 0

\* os.path.splitext(p)[0]
splitext_root(p) == IF SplitPoint(p) = 0 THEN p ELSE SubSeq(p, 1, SplitPoint(p) - 1)

\* os.path.splitext(p)[1] without its dot, lowercased
extension(p) ==
    IF SplitPoint(p) = 0 THEN <<>> ELSE MapLower(SubSeq(p, SplitPoint(p) + 1, Len(p)))

allowed_extensions == {<<"p", "n", "g">>, <<"j", "p", "g">>, <<"j", "p", "e", "g">>, <<"g", "i", "f">>}

\* the validator declared on Image.image_file; it runs in full_clean(), which
\* Model.save() and objects.create() never call
FileExtensionValidator(filename) == extension(filename) \in allowed_extensions

upload_to_path(folder_id, filename) ==
    <<"u", "p", "l", "o", "a", "d", "s", "/">> \o IntToStr(folder_id) \o <<"/">> \o filename

\* Uploaded bytes, by what PIL makes of them: decodable or not, and if so the
\* decoded size and mode; size is the byte length.
RedPng == [decodable |-> TRUE, width |-> 100, height |-> 100, mode |-> "RGB", size |-> 287]
GrayPng == [decodable |-> TRUE, width |-> 64, height |-> 48, mode |-> "L", size |-> 150]
InvalidData == [decodable |-> FALSE, width |-> 0, height |-> 0, mode |-> "", size |-> 12]

(***************************************************************************)
(* Folder                                                                  *)
(***************************************************************************)
NewFolder(name) == [id |-> None, name |-> name, slug |-> <<>>, image_count |-> 0]

\* name = CharField(unique=True)
FolderNameUnique(flds, self) == \A r \in flds : r.id # self.id => r.name # self.name

\* a variant without the unique index
FolderSlugUnchecked(flds, self) == TRUE

\* slug = SlugField(unique=True)
FolderSlugUnique(flds, self) == \A r \in flds : r.id # self.id => r.slug # self.slug

\* Folder.save, "if not self.slug": the slug is allocated when the instance has none
Folder_assign_slug(flds, self) ==
    IF Len(self.slug) = 0
    THEN [self EXCEPT !.slug = generate_unique_slug(flds, self.name, None)]
    ELSE self

\* Folder.save, "super().save(*args, **kwargs)": INSERT without a key, UPDATE with
\* one (of update_fields only, when given; {} stands for update_fields=None)
Folder_model_save(flds, self, update_fields, newId) ==
    IF self.id = None
    THEN IF FolderNameUnique(flds, self) /\ FolderSlugUnique(flds, self)
         THEN [status |-> "ok", folders |-> flds \cup {[self EXCEPT !.id = newId]}, id |-> newId]
         ELSE [status |-> "IntegrityError", folders |-> flds, id |-> None]
    ELSE IF \E r \in flds : r.id = self.id
         THEN LET stored == CHOOSE r \in flds : r.id = self.id
                  row == IF update_fields = {} THEN self
                         ELSE [k \in DOMAIN stored |->
                                  IF k \in update_fields THEN self[k] ELSE stored[k]]
              IN IF FolderNameUnique(flds, row) /\ FolderSlugUnique(flds, row)
                 THEN [status |-> "ok", folders |-> (flds \ {stored}) \cup {row}, id |-> self.id]
                 ELSE [status |-> "IntegrityError", folders |-> flds, id |-> self.id]
         ELSE [status |-> "DatabaseError", folders |-> flds, id |-> self.id]

Folder_save(flds, self, update_fields, newId) ==
    Folder_model_save(flds, Folder_assign_slug(flds, self), update_fields, newId)

\* a variant that counts the images of every folder
all_images_count(imgs, folder_id) == Cardinality(imgs)

\* a variant that keeps an incremental counter
update_image_count_by_one(flds, imgs, self) ==
    Folder_model_save(flds, [self EXCEPT !.image_count = self.image_count + 1],
                      {"image_count"}, None)

\* self.image_set.count()
image_set_count(imgs, folder_id) == Cardinality({i \in imgs : i.folder = folder_id})

update_image_count(flds, imgs, self) ==
    Folder_save(flds, [self EXCEPT !.image_count = image_set_count(imgs, self.id)],
                {"image_count"}, None)

(***************************************************************************)
(* Image                                                                   *)
(***************************************************************************)
\* Image(folder=..., image_file=upload) before its first save
NewImage(folder_id, filename) ==
    [id |-> None, folder |-> folder_id, name |-> <<>>, slug |-> <<>>,
     image_file |-> filename, width |-> 0, height |-> 0, file_size |-> 0,
     is_color |-> FALSE]

\* UniqueConstraint(fields=['folder', 'slug'], name='unique_folder_slug')
unique_folder_slug(imgs, self) ==
    \A r \in imgs : r.id # self.id => ~(r.folder = self.folder /\ r.slug = self.slug)

\* Image.save, "Set name from filename"
Image_set_name(self) ==
    IF Len(self.image_file) > 0
    THEN [self EXCEPT !.name = splitext_root(basename(self.image_file))]
    ELSE self

\* Image.save, "Generate slug from name, unique within the folder"
Image_assign_slug(imgs, self) ==
    IF Len(self.name) > 0 /\ self.folder # None
    THEN [self EXCEPT !.slug = generate_unique_slug(imgs, self.name, self.folder)]
    ELSE self

\* Image.save, "Process image metadata for new images"
Image_extract_metadata(self, content) ==
    IF self.id = None
    THEN IF content.decodable
         THEN [status |-> "ok",
               self |-> [self EXCEPT !.width = content.width, !.height = content.height,
                                     !.is_color = (content.mode # "L"),
                                     !.file_size = content.size]]
         ELSE [status |-> "ValueError", self |-> self]
    ELSE [status |-> "ok", self |-> self]

\* Image.save up to, not including, super().save()
Image_prepare(imgs, self, content) ==
    Image_extract_metadata(Image_assign_slug(imgs, Image_set_name(self)), content)

\* Image.save, "super().save(*args, **kwargs)": a new upload is written to
\* upload_to_path (the storage is taken to keep the file's base name), then the
\* row is inserted or updated under the foreign key and unique_folder_slug
Image_model_save(flds, imgs, self, newId) ==
    IF ~(\E f \in flds : f.id = self.folder) \/ ~unique_folder_slug(imgs, self)
    THEN [status |-> "IntegrityError", images |-> imgs, id |-> self.id]
    ELSE IF self.id = None
         THEN [status |-> "ok", id |-> newId,
               images |-> imgs \cup
                   {[self EXCEPT !.id = newId,
                                 !.image_file = upload_to_path(self.folder, self.image_file)]}]
         ELSE [status |-> "ok", id |-> self.id,
               images |-> {i \in imgs : i.id # self.id} \cup {self}]

\* a variant that writes the row before it reads the metadata
Image_save_row_first(flds, imgs, self, folder, content, newId) ==
    LET named == Image_assign_slug(imgs, Image_set_name(self))
        saved == Image_model_save(flds, imgs, named, newId)
        prep == Image_extract_metadata(named, content)
    IN IF saved.status # "ok"
       THEN [status |-> saved.status, folders |-> flds, images |-> imgs, id |-> self.id]
       ELSE [status |-> prep.status, folders |-> flds, images |-> saved.images, id |-> saved.id]

\* Image.save on instance self, whose folder attribute is the instance folder
Image_save(flds, imgs, self, folder, content, newId) ==
    LET prep == Image_prepare(imgs, self, content)
        saved == Image_model_save(flds, imgs, prep.self, newId)
        counted == update_image_count(flds, saved.images, folder)
    IN IF prep.status # "ok"
       THEN [status |-> prep.status, folders |-> flds, images |-> imgs, id |-> self.id]
       ELSE IF saved.status # "ok"
            THEN [status |-> saved.status, folders |-> flds, images |-> imgs, id |-> self.id]
            ELSE [status |-> counted.status, folders |-> counted.folders,
                  images |-> saved.images, id |-> saved.id]

(***************************************************************************)
(* Lookup                                                                  *)
(***************************************************************************)
NotFound == [id |-> None]

\* a variant that never resolves the identifier as an id
get_object_by_slug_only(flds, identifier) ==
    LET hits == {f \in flds : f.slug = identifier}
    IN IF Cardinality(hits) = 1 THEN CHOOSE f \in hits : TRUE ELSE NotFound

\* get_object_by_identifier(Folder, identifier): the row, or NotFound for Http404
get_object_by_identifier(flds, identifier) ==
    LET hits == IF IsDigit(identifier)
                THEN {f \in flds : f.id = ParseInt(identifier)}
                ELSE {f \in flds : f.slug = identifier}
    IN IF Cardinality(hits) = 1 THEN CHOOSE f \in hits : TRUE ELSE NotFound

(***************************************************************************)
(* Inputs                                                                  *)
(***************************************************************************)
\* "T", "t" and "t!" share the base "t"; "t 1" has the base "t-1", the first
\* suffixed slug of "t"; "!" has the empty base; "2" has a base of digits only
FolderNames ==
    {<<"T">>, <<"t">>, <<"t", "!">>, <<"t", " ", "1">>, <<"!">>, <<"2">>}

\* the names a folder is renamed to
EditNames == {<<"b">>, <<"T">>}

\* the folder names of the specifications about images
AlbumNames == {<<"T">>, <<"t">>}

FileNames == {<<"a", ".", "p", "n", "g">>, <<"a", ".", "t", "x", "t">>}

\* the uploaded contents of Spec, and those of SpecIngest and SpecConc
Contents == {RedPng, InvalidData}

Uploads == {RedPng, GrayPng, InvalidData}

Procs == {1, 2}

\* a creation request: its position, the instance it is saving (an image's
\* folder attribute too), the uploaded content, and how it ended
Idle ==
    [pc |-> "idle", kind |-> "none", self |-> NewFolder(<<>>), folder |-> NewFolder(<<>>),
     content |-> InvalidData, status |-> "none", id |-> None]

\* the folder names and the file names of the interleaved requests
RaceNames == {<<"T">>, <<"t">>, <<"t", " ", "1">>}

RaceFiles == {<<"a", ".", "p", "n", "g">>, <<"A", ".", "p", "n", "g">>}

Outcome(op, status, id) == [op |-> op, status |-> status, id |-> id]

(***************************************************************************)
(* Operations, each a whole request                                        *)
(***************************************************************************)
Init ==
    /\ folders = {}
    /\ images = {}
    /\ nextFolderId = 1
    /\ nextImageId = 1
    /\ last = Outcome("none", "ok", None)
    /\ req = [p \in Procs |-> Idle]

\* Folder.objects.create(name=name)
CreateFolder(name) ==
    /\ LET r == Folder_save(folders, NewFolder(name), {}, nextFolderId)
       IN /\ folders' = r.folders
          /\ nextFolderId' = IF r.status = "ok" THEN nextFolderId + 1 ELSE nextFolderId
          /\ last' = Outcome("create_folder", r.status, r.id)
    /\ UNCHANGED <<images, nextImageId, req>>

\* FolderDetail PATCH {name}: the stored folder is loaded, renamed and saved; a
\* name another folder holds is refused and changes nothing
EditFolder(f, name) ==
    /\ f \in folders
    /\ LET r == Folder_save(folders, [f EXCEPT !.name = name], {}, None)
       IN /\ folders' = r.folders
          /\ last' = Outcome("edit_folder", r.status, f.id)
    /\ UNCHANGED <<images, nextFolderId, nextImageId, req>>

\* Folder.delete(): on_delete=CASCADE removes the folder's images with it
DeleteFolder(f) ==
    /\ f \in folders
    /\ folders' = folders \ {f}
    /\ images' = {i \in images : i.folder # f.id}
    /\ last' = Outcome("delete_folder", "ok", f.id)
    /\ UNCHANGED <<nextFolderId, nextImageId, req>>

\* folder.update_image_count() on the stored folder
Recount(f) ==
    /\ f \in folders
    /\ LET r == update_image_count(folders, images, f)
       IN /\ folders' = r.folders
          /\ last' = Outcome("recount", r.status, f.id)
    /\ UNCHANGED <<images, nextFolderId, nextImageId, req>>

\* Image.objects.create(folder=f, image_file=SimpleUploadedFile(filename, content))
IngestImage(f, filename, content) ==
    /\ f \in folders
    /\ LET r == Image_save(folders, images, NewImage(f.id, filename), f, content, nextImageId)
       IN /\ folders' = r.folders
          /\ images' = r.images
          /\ nextImageId' = IF r.status = "ok" THEN nextImageId + 1 ELSE nextImageId
          /\ last' = Outcome("ingest", r.status, r.id)
    /\ UNCHANGED <<nextFolderId, req>>

\* image.save() on a stored image with no field changed; the stored file is
\* not read again, whatever it holds
ResaveImage(i) ==
    /\ i \in images
    /\ LET f == CHOOSE f \in folders : f.id = i.folder
           r == Image_save(folders, images, i, f, InvalidData, None)
       IN /\ folders' = r.folders
          /\ images' = r.images
          /\ last' = Outcome("resave", r.status, i.id)
    /\ UNCHANGED <<nextFolderId, nextImageId, req>>

\* image.delete(), Image.objects.all().delete(): no override, no signal
DeleteImage(i) ==
    /\ i \in images
    /\ images' = images \ {i}
    /\ last' = Outcome("delete_image", "ok", i.id)
    /\ UNCHANGED <<folders, nextFolderId, nextImageId, req>>

(***************************************************************************)
(* Spec: the image operations on up to MaxAlbums folders                   *)
(***************************************************************************)
Next ==
    \/ \E name \in AlbumNames : nextFolderId <= MaxAlbums /\ CreateFolder(name)
    \/ \E f \in folders : DeleteFolder(f)
    \/ \E f \in folders : Recount(f)
    \/ \E f \in folders, filename \in FileNames, content \in Contents :
           nextImageId <= MaxImages /\ IngestImage(f, filename, content)
    \/ \E i \in images : ResaveImage(i)
    \/ \E i \in images : DeleteImage(i)

Spec == Init /\ [][Next]_vars

(***************************************************************************)
(* SpecIngest: folder creations and image ingestions only                  *)
(***************************************************************************)
NextIngest ==
    \/ \E name \in AlbumNames : nextFolderId <= MaxAlbums /\ CreateFolder(name)
    \/ \E f \in folders, filename \in FileNames, content \in Uploads :
           nextImageId <= MaxImages /\ IngestImage(f, filename, content)

SpecIngest == Init /\ [][NextIngest]_vars

(***************************************************************************)
(* SpecFolders: the folder operations on up to MaxFolders folders          *)
(***************************************************************************)
NextFolders ==
    \/ \E name \in FolderNames : nextFolderId <= MaxFolders /\ CreateFolder(name)
    \/ \E f \in folders, name \in EditNames : EditFolder(f, name)
    \/ \E f \in folders : DeleteFolder(f)

SpecFolders == Init /\ [][NextFolders]_vars

(***************************************************************************)
(* SpecApi: POST api/folders/<folder_identifier>/images/                   *)
(***************************************************************************)
\* the request's multipart payload: an image_file part, or none
NoFile == [present |-> FALSE, filename |-> <<>>, content |-> InvalidData]

FilePart(filename, content) == [present |-> TRUE, filename |-> filename, content |-> content]

Payloads == {NoFile} \cup {FilePart(fn, c) : fn \in FileNames, c \in Uploads}

\* "1" and "2" are ids, "t" is a slug, "x" and "9" match nothing
Identifiers == {<<"1">>, <<"2">>, <<"t">>, <<"x">>, <<"9">>}

\* ImageSerializer.is_valid: image_file is the one writable field and is
\* required; the image field decodes the upload and the model field's
\* FileExtensionValidator runs on its name
ImageSerializer_is_valid(payload) ==
    /\ payload.present
    /\ payload.content.decodable
    /\ FileExtensionValidator(payload.filename)

\* a variant that resolves the folder before it validates the payload
ImageListCreate_post_folder_first(flds, imgs, identifier, payload, newId) ==
    LET f == get_object_by_identifier(flds, identifier)
        r == Image_save(flds, imgs, NewImage(f.id, payload.filename), f,
                        payload.content, newId)
    IN IF f.id = None
       THEN [status |-> "404", folders |-> flds, images |-> imgs, id |-> None]
       ELSE IF ~ImageSerializer_is_valid(payload)
            THEN [status |-> "400", folders |-> flds, images |-> imgs, id |-> None]
            ELSE [status |-> IF r.status = "ok" THEN "201" ELSE r.status,
                  folders |-> r.folders, images |-> r.images, id |-> r.id]

\* ImageListCreate POST: the serializer validates the payload (400), then
\* perform_create resolves the folder (404) and saves the image (201)
ImageListCreate_post(flds, imgs, identifier, payload, newId) ==
    LET f == get_object_by_identifier(flds, identifier)
        r == Image_save(flds, imgs, NewImage(f.id, payload.filename), f,
                        payload.content, newId)
    IN IF ~ImageSerializer_is_valid(payload)
       THEN [status |-> "400", folders |-> flds, images |-> imgs, id |-> None]
       ELSE IF f.id = None
            THEN [status |-> "404", folders |-> flds, images |-> imgs, id |-> None]
            ELSE [status |-> IF r.status = "ok" THEN "201" ELSE r.status,
                  folders |-> r.folders, images |-> r.images, id |-> r.id]

PostImage(identifier, payload) ==
    /\ LET r == ImageListCreate_post(folders, images, identifier, payload, nextImageId)
       IN /\ folders' = r.folders
          /\ images' = r.images
          /\ nextImageId' = IF r.status = "201" THEN nextImageId + 1 ELSE nextImageId
          /\ last' = Outcome("post_image", r.status, r.id)
    /\ UNCHANGED <<nextFolderId, req>>

NextApi ==
    \/ \E name \in AlbumNames : nextFolderId <= MaxAlbums /\ CreateFolder(name)
    \/ \E f \in folders : DeleteFolder(f)
    \/ \E identifier \in Identifiers, payload \in Payloads :
           nextImageId <= MaxImages /\ PostImage(identifier, payload)

SpecApi == Init /\ [][NextApi]_vars

(***************************************************************************)
(* SpecConc: two creation requests, interleaved at their database accesses *)
(*                                                                         *)
(* A request allocates its slug (the existence queries of                  *)
(* generate_unique_slug), then inserts its row; an image request then      *)
(* reads the folder's image count and writes it, as update_image_count     *)
(* does in two statements.                                                 *)
(***************************************************************************)
\* the database the requests start on: one folder, created by itself
InitConc ==
    /\ folders = Folder_save({}, NewFolder(<<"b">>), {}, 1).folders
    /\ images = {}
    /\ nextFolderId = 2
    /\ nextImageId = 1
    /\ last = Outcome("create_folder", "ok", 1)
    /\ req = [p \in Procs |-> Idle]

\* Folder.objects.create(name=name) begins
StartFolder(p, name) ==
    /\ req[p].pc = "idle"
    /\ req' = [req EXCEPT ![p] = [Idle EXCEPT !.pc = "slug", !.kind = "folder",
                                              !.self = NewFolder(name)]]
    /\ UNCHANGED <<folders, images, nextFolderId, nextImageId, last>>

\* Image.objects.create(folder=f, image_file=...) begins
StartImage(p, f, filename, content) ==
    /\ req[p].pc = "idle"
    /\ f \in folders
    /\ req' = [req EXCEPT ![p] = [Idle EXCEPT !.pc = "slug", !.kind = "image",
                                              !.self = NewImage(f.id, filename),
                                              !.folder = f, !.content = content]]
    /\ UNCHANGED <<folders, images, nextFolderId, nextImageId, last>>

\* save() up to super().save(): the slug is allocated against the rows stored
\* now; an image's metadata is extracted, or the request ends in ValueError
AllocateSlug(p) ==
    /\ req[p].pc = "slug"
    /\ IF req[p].kind = "folder"
       THEN req' = [req EXCEPT ![p].self = Folder_assign_slug(folders, req[p].self),
                               ![p].pc = "insert"]
       ELSE LET prep == Image_prepare(images, req[p].self, req[p].content)
            IN req' = [req EXCEPT ![p].self = prep.self,
                                  ![p].status = prep.status,
                                  ![p].pc = IF prep.status = "ok" THEN "insert" ELSE "done"]
    /\ UNCHANGED <<folders, images, nextFolderId, nextImageId, last>>

\* super().save(): the INSERT, under the table's unique constraints
InsertFolder(p) ==
    /\ req[p].pc = "insert"
    /\ req[p].kind = "folder"
    /\ LET r == Folder_model_save(folders, req[p].self, {}, nextFolderId)
       IN /\ folders' = r.folders
          /\ nextFolderId' = IF r.status = "ok" THEN nextFolderId + 1 ELSE nextFolderId
          /\ req' = [req EXCEPT ![p].status = r.status, ![p].id = r.id, ![p].pc = "done"]
    /\ UNCHANGED <<images, nextImageId, last>>

InsertImage(p) ==
    /\ req[p].pc = "insert"
    /\ req[p].kind = "image"
    /\ LET r == Image_model_save(folders, images, req[p].self, nextImageId)
       IN /\ images' = r.images
          /\ nextImageId' = IF r.status = "ok" THEN nextImageId + 1 ELSE nextImageId
          /\ req' = [req EXCEPT ![p].status = r.status, ![p].id = r.id,
                                ![p].pc = IF r.status = "ok" THEN "count" ELSE "done"]
    /\ UNCHANGED <<folders, nextFolderId, last>>

\* update_image_count: self.image_count = self.image_set.count()
ReadCount(p) ==
    /\ req[p].pc = "count"
    /\ req' = [req EXCEPT ![p].folder.image_count = image_set_count(images, req[p].folder.id),
                          ![p].pc = "write"]
    /\ UNCHANGED <<folders, images, nextFolderId, nextImageId, last>>

\* update_image_count: self.save(update_fields=['image_count'])
WriteCount(p) ==
    /\ req[p].pc = "write"
    /\ LET r == Folder_save(folders, req[p].folder, {"image_count"}, None)
       IN /\ folders' = r.folders
          /\ req' = [req EXCEPT ![p].status = r.status, ![p].pc = "done"]
    /\ UNCHANGED <<images, nextFolderId, nextImageId, last>>

NextConc ==
    \/ \E p \in Procs, name \in RaceNames : StartFolder(p, name)
    \/ \E p \in Procs, f \in folders, filename \in RaceFiles, content \in Uploads :
           StartImage(p, f, filename, content)
    \/ \E p \in Procs : AllocateSlug(p)
    \/ \E p \in Procs : InsertFolder(p)
    \/ \E p \in Procs : InsertImage(p)
    \/ \E p \in Procs : ReadCount(p)
    \/ \E p \in Procs : WriteCount(p)

SpecConc == InitConc /\ [][NextConc]_vars

(***************************************************************************)
(* Properties                                                              *)
(***************************************************************************)
Suffixed(base, n) == base \o <<"-">> \o IntToStr(n)

\* base when free, else base-n for the least n >= 1 with base-n free
FirstFree(held, base) ==
    IF base \notin held THEN base
    ELSE LET n == CHOOSE n \in 1..(Cardinality(held) + 1) :
                      /\ Suffixed(base, n) \notin held
                      /\ \A m \in 1..(n - 1) : Suffixed(base, m) \in held
         IN Suffixed(base, n)

FolderSlugs(flds) == {f.slug : f \in flds}

ImageSlugs(imgs, folder_id) == {i.slug : i \in {j \in imgs : j.folder = folder_id}}

CountsMatch(flds, imgs) ==
    \A f \in flds : f.image_count = Cardinality({i \in imgs : i.folder = f.id})

\* C3: a folder creation that succeeds stores the base slug of the name when no
\* folder holds it, and otherwise base-n for the least n >= 1 such that no folder
\* holds base-n; so a folder created when the only folders hold base, and then
\* base and base-1, gets base-1, and then base-2.
C3_SlugIsFirstFree ==
    [][(last'.op = "create_folder" /\ last'.status = "ok" /\ nextFolderId' = nextFolderId + 1)
          => \E g \in folders' :
                LET base == slugify(g.name)
                IN /\ g.id = nextFolderId
                   /\ g.slug = FirstFree(FolderSlugs(folders), base)
                   /\ (FolderSlugs(folders) = {base} => g.slug = Suffixed(base, 1))
                   /\ (FolderSlugs(folders) = {base, Suffixed(base, 1)}
                          => g.slug = Suffixed(base, 2))]_vars

\* C3 witness: three folders whose names share the base "t" hold t, t-1 and t-2
C3_Witness ==
    /\ Cardinality(folders) = 3
    /\ \A f \in folders : slugify(f.name) = <<"t">>
    /\ FolderSlugs(folders) = {<<"t">>, <<"t", "-", "1">>, <<"t", "-", "2">>}

\* C5: no step changes the stored slug of a folder that exists before and after it
C5_FolderSlugNeverChanges ==
    [][\A f \in folders : \A g \in folders' : g.id = f.id => g.slug = f.slug]_vars

\* C9 as claimed: every folder is found by its id written in digits and by its
\* slug, whatever the slug
C9_LookupByIdAndAnySlug ==
    \A f \in folders :
        /\ get_object_by_identifier(folders, IntToStr(f.id)) = f
        /\ get_object_by_identifier(folders, f.slug) = f

\* C9 amended: every folder is found by its id written in digits, and by its slug
\* when the slug is not made of digits only
C9_LookupByIdAndNonDigitSlug ==
    \A f \in folders :
        /\ get_object_by_identifier(folders, IntToStr(f.id)) = f
        /\ (~IsDigit(f.slug) => get_object_by_identifier(folders, f.slug) = f)

\* C9 witness: a folder with a suffixed slug found both ways, beside a folder
\* whose slug is digits only
C9_Witness ==
    /\ \E f \in folders :
          /\ f.slug = <<"t", "-", "1">>
          /\ get_object_by_identifier(folders, IntToStr(f.id)) = f
          /\ get_object_by_identifier(folders, f.slug) = f
    /\ \E g \in folders : IsDigit(g.slug)

\* C1: under folder creations and image ingestions alone, every folder's stored
\* image_count is the number of images that reference it
C1_CountEqualsImages == CountsMatch(folders, images)

\* C1 witness: two ingestions into one folder have left it with a count of 2
C1_Witness ==
    /\ last.op = "ingest" /\ last.status = "ok"
    /\ \E f \in folders :
          /\ f.image_count = 2
          /\ Cardinality({i \in images : i.folder = f.id}) = 2

\* C2: a step that deletes an image leaves the count of every folder that was
\* right before it right after it (the owning folder's count drops by one)
C2_DeleteRecounts ==
    [][(last'.op = "delete_image" /\ images' # images)
          => \A f \in folders : \A g \in folders' :
                (g.id = f.id /\ f.image_count = image_set_count(images, f.id))
                    => g.image_count = image_set_count(images', g.id)]_vars

SlugsUniquePerFolder(imgs) ==
    \A i \in imgs : \A j \in imgs : (i.id # j.id /\ i.folder = j.folder) => i.slug # j.slug

\* C4: after every step no two images of one folder hold the same slug; an
\* ingestion never fails on the slug, and the new image's slug is the first one
\* free among the slugs of its own folder, whatever other folders hold
C4_SlugsScopedToFolder ==
    [][/\ SlugsUniquePerFolder(images')
       /\ (last'.op = "ingest" => last'.status # "IntegrityError")
       /\ (last'.op = "ingest" /\ nextImageId' = nextImageId + 1)
             => \E i \in images' :
                   /\ i.id = nextImageId
                   /\ i.slug = FirstFree(ImageSlugs(images, i.folder), slugify(i.name))]_vars

\* C4 witness: the same file name ingested into two folders holds the base slug
\* in both
C4_Witness ==
    /\ last.op = "ingest" /\ last.status = "ok"
    /\ \E i \in images : \E j \in images :
          /\ i.folder # j.folder
          /\ i.slug = <<"a">> /\ j.slug = <<"a">>

\* C6: saving a stored image again leaves its slug, width, height, file size and
\* is_color as they were
C6_ResaveKeepsSlugAndMetadata ==
    [][last'.op = "resave"
          => \A i \in images : \A j \in images' :
                j.id = i.id => /\ j.slug = i.slug
                               /\ j.width = i.width /\ j.height = i.height
                               /\ j.file_size = i.file_size
                               /\ j.is_color = i.is_color]_vars

\* C7: an ingestion of a file whose extension is not allowed ends in an error
\* and creates no image, whatever the content
C7_BadExtensionRejected ==
    [][last'.op = "ingest"
          => \A f \in folders, filename \in FileNames, content \in Contents :
                (IngestImage(f, filename, content) /\ ~FileExtensionValidator(filename))
                    => (last'.status = "ValueError" /\ images' = images)]_vars

\* C8: an ingestion of content that cannot be decoded ends in ValueError and
\* leaves the images and the folders (their counts included) as they were
C8_UndecodablePersistsNothing ==
    [][last'.op = "ingest"
          => \A f \in folders, filename \in FileNames, content \in Contents :
                (IngestImage(f, filename, content) /\ ~content.decodable)
                    => (last'.status = "ValueError" /\ images' = images
                                                   /\ folders' = folders)]_vars

\* C8 witness: an ingestion has ended in ValueError in a folder that holds an image
C8_Witness ==
    /\ last.op = "ingest" /\ last.status = "ValueError"
    /\ images # {}

\* the request's INSERT was made and stored a row / was refused by a unique index
Inserted(p) == req[p].id # None

Refused(p) == req[p].status = "IntegrityError"

\* both requests are for the same scope and allocated the same slug
SameCandidate(p, q) ==
    /\ req[p].kind = req[q].kind
    /\ req[p].self.slug = req[q].self.slug
    /\ (req[p].kind = "image" => req[p].self.folder = req[q].self.folder)

RowsOf(kind) == IF kind = "folder" THEN folders ELSE images

\* C10: in every state of two interleaved creation requests no two folders hold
\* the same slug and no two images of one folder do; when both requests have
\* tried their insert with the same candidate slug in the same scope, one
\* insert has stored its row and the other was refused with IntegrityError; and
\* a stored row stays as its request wrote it
C10_OneInsertWins ==
    /\ \A f \in folders : \A g \in folders : f.id # g.id => f.slug # g.slug
    /\ SlugsUniquePerFolder(images)
    /\ \A p \in Procs : \A q \in Procs :
          (/\ p # q
           /\ Inserted(p) \/ Refused(p)
           /\ Inserted(q) \/ Refused(q)
           /\ SameCandidate(p, q))
              => \/ Inserted(p) /\ Refused(q)
                 \/ Inserted(q) /\ Refused(p)
    /\ \A p \in Procs :
          Inserted(p) => \E r \in RowsOf(req[p].kind) :
                            /\ r.id = req[p].id
                            /\ r.slug = req[p].self.slug
                            /\ r.name = req[p].self.name

\* C10 witness: two folder requests with different names allocated the same slug;
\* one stored its folder and the other was refused
C10_Witness ==
    \E p \in Procs : \E q \in Procs :
        /\ req[p].kind = "folder" /\ req[q].kind = "folder"
        /\ req[p].self.name # req[q].self.name
        /\ req[p].self.slug = req[q].self.slug
        /\ Inserted(p) /\ Refused(q)

\* C11: no stored folder and no stored image holds the empty slug
C11_NoEmptySlug ==
    /\ \A f \in folders : Len(f.slug) > 0
    /\ \A i \in images : Len(i.slug) > 0

\* C12: a recount of a folder changes nothing of its stored row but image_count,
\* which becomes the number of its images, and a second recount right after it,
\* with no image created or deleted in between, leaves every stored row as the
\* first one left it
C12_RecountIdempotent ==
    [][last'.op = "recount"
          => \A f \in folders :
                f.id = last'.id
                    => \E g \in folders' :
                          /\ g = [f EXCEPT !.image_count = image_set_count(images, f.id)]
                          /\ update_image_count(folders', images', g).status = "ok"
                          /\ update_image_count(folders', images', g).folders = folders']_vars

\* C12 witness: the only folder ever created took two images, lost one, and a
\* recount has left it with a count of 1
C12_Witness ==
    /\ last.op = "recount" /\ last.status = "ok"
    /\ nextFolderId = 2 /\ nextImageId = 3
    /\ Cardinality(images) = 1
    /\ \E f \in folders : f.id = last.id /\ f.image_count = 1

\* C13: a create-image request whose payload is not valid ends in 400 whether or
\* not its identifier matches a folder; it ends in 404 exactly when the payload
\* is valid and the identifier matches no folder; in both cases the images and
\* the folders stay as they were
C13_ValidationBeforeLookup ==
    [][last'.op = "post_image"
          => \A identifier \in Identifiers, payload \in Payloads :
                PostImage(identifier, payload)
                    => LET valid == ImageSerializer_is_valid(payload)
                           found == get_object_by_identifier(folders, identifier).id # None
                       IN /\ ~valid => last'.status = "400"
                          /\ (last'.status = "404") <=> (valid /\ ~found)
                          /\ last'.status \in {"400", "404"}
                                => (images' = images /\ folders' = folders)]_vars

\* C13 witness: a request has ended in 400 while no folder exists at all, so its
\* identifier matched none
C13_Witness ==
    /\ last.op = "post_image" /\ last.status = "400"
    /\ folders = {} /\ images = {}

\* C14: once two interleaved ingestions into one folder have both completed,
\* the folder's stored image_count is the number of images that reference it
C14_InterleavedCountMatches ==
    (/\ \A p \in Procs : req[p].kind = "image" /\ req[p].pc = "done" /\ Inserted(p)
     /\ \A p \in Procs : \A q \in Procs : req[p].self.folder = req[q].self.folder)
        => \A f \in folders :
              (\E p \in Procs : req[p].self.folder = f.id)
                  => f.image_count = image_set_count(images, f.id)

====
